---- MODULE Spec2Model ----
(***************************************************************************)
(* Model of src/ingest.py: the size-aware batching loop of ingest() and    *)
(* the send operation _send_logs_to_chronicle().                           *)
(*                                                                         *)
(* A JSON text is modelled by what the loop measures of it: its length in  *)
(* characters (json.dumps emits ASCII only, so characters are bytes), the  *)
(* number of characters a further json.dumps has to escape, and an id that *)
(* stands for its content (two records of one input never share an id).   *)
(***************************************************************************)
EXTENDS Integers, Sequences, FiniteSets, TLC

\* ---------------------------------------------------------------- constants
SIZE_THRESHOLD_BYTES == 950000
LOG_BATCH_SIZE == 100

\* ------------------------------------------------------------------- bounds
\* MaxBlocks: blocks of an input under Spec.
\* MaxFairBlocks: blocks of an input under SpecOk, the fair specification.
MaxBlocks == 3
MaxFairBlocks == 2

\* ------------------------------------------------------------------- inputs
\* The environments ingest runs in.  cfg: the lengths of CUSTOMER_ID, of the
\* log_type argument and of the namespace environment variable (0: unset or
\* empty, which `if namespace:` treats alike).  hdr: sys.getsizeof(str) of
\* an ASCII str is a fixed header plus one byte per character; the header
\* is 49 bytes on CPython up to 3.11 and 41 from 3.12.
Environments ==
  { [cfg |-> [cid |-> 36, logType |-> 4, ns |-> 0], hdr |-> 49],
    [cfg |-> [cid |-> 36, logType |-> 4, ns |-> 7], hdr |-> 41] }

\* json.dumps(body) of a body without entries.
EmptyBodyLen(c) ==
  48 + c.cid + c.logType + (IF c.ns > 0 THEN 17 + c.ns ELSE 0)

\* Lengths of json.dumps(record) for the kinds of record the inputs are made
\* of; esc counts the characters of that text that json.dumps escapes again
\* when the text becomes the value of "logText" (the quotes of a string).
\*   small    a short string
\*   medium   a string of 7000 characters: 100 of them stay under T,
\*            200 of them do not
\*   big      a string of 400000 characters: two fit in a request
\*   huge     Envelope of 2*T bytes
\*   exact    Envelope that makes the request body exactly T bytes
\*   over     one byte more than exact (still under T by itself)
RecordKinds(c) ==
  [ small  |-> [len |-> 12, esc |-> 2],
    medium |-> [len |-> 7002, esc |-> 2],
    big    |-> [len |-> 400002, esc |-> 2],
    huge   |-> [len |-> 2 * SIZE_THRESHOLD_BYTES - 15 - 2, esc |-> 2],
    exact  |-> [len |-> SIZE_THRESHOLD_BYTES - EmptyBodyLen(c) - 15, esc |-> 0],
    over   |-> [len |-> SIZE_THRESHOLD_BYTES - EmptyBodyLen(c) - 14, esc |-> 0] ]

\* An input is a concatenation of at most MaxBlocks blocks, a block being
\* `count` records of one kind.
BlockOptions ==
  { [kind |-> "small", count |-> 100],
    [kind |-> "medium", count |-> 50], [kind |-> "medium", count |-> 100],
    [kind |-> "big", count |-> 1], [kind |-> "huge", count |-> 1],
    [kind |-> "exact", count |-> 1], [kind |-> "over", count |-> 1] }

BlockSeqs(n) == UNION { [1..k -> BlockOptions] : k \in 0..n }

RECURSIVE TotalCount(_, _)
TotalCount(bs, k) == IF k = 0 THEN 0 ELSE TotalCount(bs, k - 1) + bs[k].count

RECURSIVE BlockOf(_, _, _)
\* the block that holds record number p (1-based), searching from block k
BlockOf(bs, k, p) ==
  IF p <= bs[k].count THEN k ELSE BlockOf(bs, k + 1, p - bs[k].count)

\* The records of an input: record p has id p and the size of its block's kind.
DataOf(c, bs) ==
  [p \in 1..TotalCount(bs, Len(bs)) |->
     LET kind == RecordKinds(c)[bs[BlockOf(bs, 1, p)].kind]
     IN  [id |-> p, len |-> kind.len, esc |-> kind.esc]]

\* ---------------------------------------------------------- serialization
\* {"logText": json.dumps(i)}: the Envelope of record i (line 72).  Its
\* logText is a str; what the model keeps of it is the id of the record and
\* the length of the str as a JSON string literal: the text between two
\* quotes, every escaped character taking two characters.
Envelope(rec) == [id |-> rec.id, logText |-> 2 + rec.len + rec.esc]

\* Line 72: the Envelopes of the records, in the order of the input.
ParsedData(d) == [p \in 1..Len(d) |-> Envelope(d[p])]

\* len(json.dumps(envelope)): `{"logText": ` is 12 characters, the string
\* literal follows, `}` closes.
EnvelopeLen(env) == 12 + env.logText + 1

RECURSIVE SumEnvelopeLen(_, _, _)
\* sum of EnvelopeLen over s[from..to], halving the range
SumEnvelopeLen(s, from, to) ==
  IF from > to THEN 0
  ELSE IF from = to THEN EnvelopeLen(s[from])
  ELSE LET mid == (from + to) \div 2
       IN  SumEnvelopeLen(s, from, mid) + SumEnvelopeLen(s, mid + 1, to)

\* len(json.dumps(list of envelopes)): brackets, items, ", " between items.
ListLen(s) ==
  IF Len(s) = 0 THEN 2
  ELSE 2 + SumEnvelopeLen(s, 1, Len(s)) + 2 * (Len(s) - 1)

\* len(json.dumps(body)) for a body holding the entries es.
BodyLen(c, es) == EmptyBodyLen(c) - 2 + ListLen(es)

\* sys.getsizeof(text) for a text of n characters.
GetSizeOf(h, n) == h + n

\* parsed_data[index : index + LOG_BATCH_SIZE] (0-based index, clipped).
Slice(s, index) ==
  IF index >= Len(s) THEN << >>
  ELSE SubSeq(s, index + 1,
              IF index + LOG_BATCH_SIZE < Len(s)
                THEN index + LOG_BATCH_SIZE ELSE Len(s))

\* -------------------------------------------------------------- responses
\* What the HTTP layer can answer.  status is the status code; body is the
\* kind of response body:
\*   noJson    nothing response.json() can parse (an empty body included)
\*   emptyObj  the JSON value {}
\*   errObj    a JSON object with an "error" member
\*   nonObj    a JSON value that is not an object (a list, a number, null)
Statuses == {200, 302, 400}
BodyKinds == {"noJson", "emptyObj", "errObj", "nonObj"}
Responses == [status : Statuses, body : BodyKinds]
NoResponse == [status |-> 0, body |-> "none"]
NoError == [type |-> "none", status |-> 0, message |-> "none"]

\* response.raise_for_status(): raises HTTPError for 4xx and 5xx only.
RaiseForStatusRaises(resp) == resp.status >= 400 /\ resp.status < 600

\* response.json() raises ValueError when the body is not JSON.
JsonRaises(resp) == resp.body = "noJson"

\* response.json().get(...) needs a dict.
JsonIsObject(resp) == resp.body \in {"emptyObj", "errObj"}

\* Lines 143-155: how _send_logs_to_chronicle ends for a response.
\*   "ok"              returns normally
\*   "RuntimeError"    the raise of line 152
\*   "AttributeError"  .get on a JSON value that is not an object (line 149),
\*                     which `except ValueError` does not catch
SendOutcome(resp) ==
  IF ~RaiseForStatusRaises(resp) /\ ~JsonRaises(resp) THEN "ok"
  ELSE IF JsonRaises(resp) THEN "RuntimeError"
  ELSE IF JsonIsObject(resp) THEN "RuntimeError"
  ELSE "AttributeError"

\* The error_message of line 149/151 when the send raises RuntimeError.
ErrorMessage(resp) ==
  IF JsonRaises(resp) THEN "Failed to parse error response from Chronicle"
  ELSE IF resp.body = "errObj" THEN "error member"
  ELSE "Unknown error"

\* The exception that leaves the send: the RuntimeError of lines 152-155
\* carries the status code and the reason, the AttributeError neither.
RaisedError(resp) ==
  IF SendOutcome(resp) = "RuntimeError"
    THEN [type |-> "RuntimeError", status |-> resp.status,
          message |-> ErrorMessage(resp)]
    ELSE [type |-> SendOutcome(resp), status |-> 0, message |-> "none"]

\* ------------------------------------------------------------------ state
VARIABLES
  cfg,          \* configuration lengths (module globals, namespace)
  hdr,          \* str header size of the interpreter
  parsed_data,  \* line 72: the Envelopes of the `data` argument
  entries,      \* body["entries"]
  index,        \* the cursor (0-based)
  pc,           \* position in ingest
  site,         \* which call of _send_logs_to_chronicle is active
  response,     \* the response of line 141 while the send handles it
  sent,         \* the entries lists handed to http_session.request, in order
  degradedAt,   \* cursor of the latest iteration that printed lines 88-91
  error         \* exception that left ingest, NoError if none

vars == << cfg, hdr, parsed_data, entries, index, pc, site, response,
           sent, degradedAt, error >>

\* ingest has been called and has run lines 65-80: the Envelopes are built,
\* the body holds no entries, the cursor is at the first record.
InitWith(n) ==
  /\ \E e \in Environments : cfg = e.cfg /\ hdr = e.hdr
  /\ \E bs \in BlockSeqs(n) : parsed_data = ParsedData(DataOf(cfg, bs))
  /\ entries = << >>
  /\ index = 0
  /\ pc = "loop"
  /\ site = "none"
  /\ response = NoResponse
  /\ sent = << >>
  /\ degradedAt = -1
  /\ error = NoError

Init == InitWith(MaxBlocks)

\* ---------------------------------------------------------------- actions
\* The three measurements of one iteration (lines 83-85, 92).
next_batch_of_logs == Slice(parsed_data, index)
size_of_current_payload == GetSizeOf(hdr, BodyLen(cfg, entries))
size_of_next_batch == GetSizeOf(hdr, ListLen(next_batch_of_logs))
size_of_next_log == GetSizeOf(hdr, EnvelopeLen(parsed_data[index + 1]))

\* Mutant of SingleFits: the item is measured without the payload it joins.
SingleFits_IgnoresPayload ==
  /\ size_of_next_batch >= SIZE_THRESHOLD_BYTES
  /\ size_of_next_log <= SIZE_THRESHOLD_BYTES

\* Line 87 and line 93: single-item mode, the item fits.
SingleFits ==
  /\ size_of_next_batch >= SIZE_THRESHOLD_BYTES
  /\ size_of_current_payload + size_of_next_log <= SIZE_THRESHOLD_BYTES

\* Mutant of BatchFits: a probe batch is only put into an empty body, so
\* that every probe batch is flushed by itself.
BatchFits_EmptyBodyOnly ==
  /\ ~(size_of_next_batch >= SIZE_THRESHOLD_BYTES)
  /\ entries = << >>
  /\ size_of_current_payload + size_of_next_batch <= SIZE_THRESHOLD_BYTES

\* Line 87 false and line 98: the probe batch fits.
BatchFits ==
  /\ ~(size_of_next_batch >= SIZE_THRESHOLD_BYTES)
  /\ size_of_current_payload + size_of_next_batch <= SIZE_THRESHOLD_BYTES

\* Mutant of AppendOne: the cursor advances by the probe size.
AppendOne_AdvancesByBatch ==
  /\ pc = "loop"
  /\ index < Len(parsed_data)
  /\ SingleFits
  /\ entries' = Append(entries, parsed_data[index + 1])
  /\ index' = index + LOG_BATCH_SIZE
  /\ degradedAt' = index
  /\ UNCHANGED << cfg, hdr, parsed_data, pc, site, response, sent, error >>

\* Lines 87-96.
AppendOne ==
  /\ pc = "loop"
  /\ index < Len(parsed_data)
  /\ SingleFits
  /\ entries' = Append(entries, parsed_data[index + 1])
  /\ index' = index + 1
  /\ degradedAt' = index
  /\ UNCHANGED << cfg, hdr, parsed_data, pc, site, response, sent, error >>

\* Lines 98-102.
AppendBatch ==
  /\ pc = "loop"
  /\ index < Len(parsed_data)
  /\ BatchFits
  /\ entries' = entries \o next_batch_of_logs
  /\ index' = index + LOG_BATCH_SIZE
  /\ UNCHANGED << cfg, hdr, parsed_data, pc, site, response, sent,
                  degradedAt, error >>

\* Neither branch continued: control reaches the call of line 104.
FlushInLoop ==
  /\ pc = "loop"
  /\ index < Len(parsed_data)
  /\ ~SingleFits
  /\ ~BatchFits
  /\ pc' = "request"
  /\ site' = "loop"
  /\ degradedAt' = IF size_of_next_batch >= SIZE_THRESHOLD_BYTES
                     THEN index ELSE degradedAt
  /\ UNCHANGED << cfg, hdr, parsed_data, entries, index, response,
                  sent, error >>

\* Line 82 false, lines 111-112.
ExitLoop ==
  /\ pc = "loop"
  /\ ~(index < Len(parsed_data))
  /\ IF entries # << >>
       THEN pc' = "request" /\ site' = "final"
       ELSE pc' = "done" /\ site' = site
  /\ UNCHANGED << cfg, hdr, parsed_data, entries, index, response,
                  sent, degradedAt, error >>

\* The log of requests is a history of the run.  A run that flushes an
\* empty body is back in the state it flushed from and repeats that request
\* for ever; the log shows the repetition by its two latest requests and
\* does not grow by further copies, so that the repetition is a cycle of
\* states.  (Requests that hold entries never repeat: ids are distinct.)
RecordRequest(log, req) ==
  IF Len(log) >= 2 /\ log[Len(log)] = req /\ log[Len(log) - 1] = req
    THEN log ELSE Append(log, req)

\* Line 141: the body is handed to the HTTP session, which answers.
Request(resp) ==
  /\ pc = "request"
  /\ sent' = RecordRequest(sent, entries)
  /\ response' = resp
  /\ pc' = "response"
  /\ UNCHANGED << cfg, hdr, parsed_data, entries, index, site,
                  degradedAt, error >>

\* Lines 143-146 without an exception, then back in ingest: line 109 after
\* the call of line 104, the end of ingest after the call of line 112.
SendReturns ==
  /\ pc = "response"
  /\ SendOutcome(response) = "ok"
  /\ response' = NoResponse
  /\ IF site = "loop"
       THEN entries' = << >> /\ pc' = "loop"
       ELSE entries' = entries /\ pc' = "done"
  /\ site' = "none"
  /\ UNCHANGED << cfg, hdr, parsed_data, index, sent, degradedAt, error >>

\* Mutant of SendRaises: the exception is caught around the call and the
\* loop goes on.
SendRaises_Swallowed ==
  /\ pc = "response"
  /\ SendOutcome(response) # "ok"
  /\ error' = RaisedError(response)
  /\ response' = NoResponse
  /\ IF site = "loop"
       THEN entries' = << >> /\ pc' = "loop"
       ELSE entries' = entries /\ pc' = "done"
  /\ site' = "none"
  /\ UNCHANGED << cfg, hdr, parsed_data, index, sent, degradedAt >>

\* Lines 147-155: the send raises; ingest has no handler, the exception
\* leaves it.
SendRaises ==
  /\ pc = "response"
  /\ SendOutcome(response) # "ok"
  /\ error' = RaisedError(response)
  /\ response' = NoResponse
  /\ pc' = "raised"
  /\ site' = "none"
  /\ UNCHANGED << cfg, hdr, parsed_data, entries, index, sent, degradedAt >>

AnyRequest == \E resp \in Responses : Request(resp)

OkRequest == \E resp \in Responses : SendOutcome(resp) = "ok" /\ Request(resp)

Next ==
  \/ AppendOne
  \/ AppendBatch
  \/ FlushInLoop
  \/ ExitLoop
  \/ AnyRequest
  \/ SendReturns
  \/ SendRaises

Spec == Init /\ [][Next]_vars

\* Every send succeeding; the interpreter runs the sequential program on.
NextOk ==
  \/ AppendOne
  \/ AppendBatch
  \/ FlushInLoop
  \/ ExitLoop
  \/ OkRequest
  \/ SendReturns

InitFair == InitWith(MaxFairBlocks)

SpecOk == InitFair /\ [][NextOk]_vars /\ WF_vars(NextOk)


\* ============================================================ properties
RECURSIVE Flatten(_, _)
\* the entries of log[1..k], concatenated in send order
Flatten(log, k) == IF k = 0 THEN << >> ELSE Flatten(log, k - 1) \o log[k]

IsPrefix(s, t) == Len(s) <= Len(t) /\ SubSeq(t, 1, Len(s)) = s

\* the requests whose send has returned normally
Delivered ==
  IF pc \in {"response", "raised"} THEN SubSeq(sent, 1, Len(sent) - 1) ELSE sent

\* number of entries of every request, in send order
SentSizes == [k \in 1..Len(sent) |-> Len(sent[k])]

AllEnvelopesUnderT ==
  \A p \in 1..Len(parsed_data) :
    EnvelopeLen(parsed_data[p]) < SIZE_THRESHOLD_BYTES

Oversized == { p \in 1..Len(parsed_data) :
                 EnvelopeLen(parsed_data[p]) > SIZE_THRESHOLD_BYTES }

\* C1: when every Envelope of the input is smaller than T and every send
\* succeeds, ingest completes, and the entries of the requests it sent,
\* concatenated in send order, are exactly the input Envelopes.
C1_ReconstructsInput ==
  (pc = "loop" /\ AllEnvelopesUnderT)
    ~> (pc = "done" /\ Flatten(sent, Len(sent)) = parsed_data)

\* C2: every request handed to the send operation has a serialized body of
\* at most T bytes, unless it holds exactly one Envelope that by itself
\* exceeds T.
C2_RequestsWithinThreshold ==
  \A k \in 1..Len(sent) :
    \/ BodyLen(cfg, sent[k]) <= SIZE_THRESHOLD_BYTES
    \/ /\ Len(sent[k]) = 1
       /\ EnvelopeLen(sent[k][1]) > SIZE_THRESHOLD_BYTES

\* C2 witness: a request of several entries that came close to T was sent.
C2_Witness ==
  \E k \in 1..Len(sent) :
    /\ Len(sent[k]) >= 2
    /\ BodyLen(cfg, sent[k]) > 800000

\* C3: a record whose Envelope alone exceeds T is eventually sent in a
\* request that holds exactly that Envelope, and ingest goes on to finish
\* the records after it.
C3_OversizedSentAlone ==
  (pc = "loop" /\ Oversized # {})
    ~> (/\ \A p \in Oversized :
             \E k \in 1..Len(sent) : sent[k] = << parsed_data[p] >>
        /\ pc = "done")

\* C9: with every send succeeding, ingest terminates.
C9_Terminates == <>(pc = "done")

\* C10: no request with an empty entries list is handed to the send
\* operation.
C10_NoEmptyRequest == \A k \in 1..Len(sent) : sent[k] # << >>

\* C4: when a send fails, the error leaves ingest and the loop is over: no
\* request follows the failing one, the entries not yet sent stay unsent,
\* and the requests delivered before it are a prefix of the input.
C4_AbortsOnFailure ==
  [][ /\ IsPrefix(Flatten(Delivered, Len(Delivered)), parsed_data)'
      /\ IsPrefix(sent, sent')
      /\ (error' # NoError => pc' = "raised")
      /\ (error # NoError =>
            sent' = sent /\ entries' = entries /\ index' = index) ]_vars

\* C4 witness: a send failed after an earlier request was delivered and
\* before the cursor reached the end of the input.
C4_Witness ==
  /\ pc = "raised"
  /\ Len(sent) >= 2
  /\ sent[1] # << >>
  /\ index < Len(parsed_data)

Is2xx(status) == status >= 200 /\ status < 300

\* C5: the send fails with the ingestion error exactly when the status is
\* not 2xx; with a 2xx status it returns normally whatever the body is.
C5_FailsIffNon2xx ==
  [][ pc = "response" =>
        /\ (error'.type = "RuntimeError") <=> ~Is2xx(response.status)
        /\ Is2xx(response.status) => error' = NoError ]_vars

\* the serialized request that would hold the whole input
TotalRequestLen == BodyLen(cfg, parsed_data)

\* C6: records whose request serializes to exactly T go out in one request;
\* with one byte more they go out in exactly two requests.
C6_Boundary ==
  /\ TotalRequestLen = SIZE_THRESHOLD_BYTES =>
       /\ Len(sent) <= 1
       /\ pc = "done" => SentSizes = << Len(parsed_data) >>
  /\ TotalRequestLen = SIZE_THRESHOLD_BYTES + 1 =>
       /\ Len(sent) <= 2
       /\ pc = "done" => Len(sent) = 2

\* the measured sizes of a body holding `body` and of the probe batch
\* `window` are together within T
MeasuredFit(body, window) ==
  GetSizeOf(hdr, BodyLen(cfg, body)) + GetSizeOf(hdr, ListLen(window))
    <= SIZE_THRESHOLD_BYTES

\* every probe batch of the input, at any cursor, fits a body without entries
Comfortable ==
  \A i \in 0..(Len(parsed_data) - 1) :
    MeasuredFit(<< >>, Slice(parsed_data, i))

Scenario250 == pc = "done" /\ Len(parsed_data) = 250 /\ Comfortable

\* C7 as stated: 250 records whose probe batches are comfortably under T
\* are sent as 3 requests of 100, 100 and 50 entries.
C7_ThreeRequests == Scenario250 => SentSizes = << 100, 100, 50 >>

\* the request sizes for 250 such records: consecutive probe windows share a
\* request while the body measured with the next window stays within T
ExpectedSizes250 ==
  LET w1 == SubSeq(parsed_data, 1, 100)
      w2 == SubSeq(parsed_data, 101, 200)
      w3 == SubSeq(parsed_data, 201, 250)
  IN  IF MeasuredFit(w1, w2)
        THEN IF MeasuredFit(w1 \o w2, w3) THEN << 250 >> ELSE << 200, 50 >>
        ELSE IF MeasuredFit(w2, w3) THEN << 100, 150 >> ELSE << 100, 100, 50 >>

\* C7 amended: the 250 records go out in whole probe windows, consecutive
\* windows merged into one request while they fit: 100, 100, 50 when neither
\* merge fits, one request of 250 when both do.
C7_WindowsMerged == Scenario250 => SentSizes = ExpectedSizes250

\* C7 witness: 250 such records were sent in one request.
C7_Witness == Scenario250 /\ SentSizes = << 250 >>

\* C8 as stated: after the probe window at cursor i measured at or above T,
\* no bulk append happens for a window that starts before i + B.
C8_NoBulkInsideWindow ==
  [][ (pc = "loop" /\ index' = index + LOG_BATCH_SIZE) =>
        (degradedAt = -1 \/ index >= degradedAt + LOG_BATCH_SIZE) ]_vars

\* C8 amended: an iteration whose probe window measures at or above T
\* appends at most the one entry at the cursor; the window is measured anew
\* from the cursor at every iteration, and a bulk append happens exactly for
\* a window that measures below T, wherever it starts.
C8_DegradePerIteration ==
  [][ (pc = "loop" /\ index < Len(parsed_data)) =>
        /\ size_of_next_batch >= SIZE_THRESHOLD_BYTES =>
             \/ /\ index' = index + 1
                /\ entries' = Append(entries, parsed_data[index + 1])
                /\ degradedAt' = index
             \/ /\ index' = index
                /\ entries' = entries
                /\ pc' = "request"
        /\ index' = index + LOG_BATCH_SIZE =>
             /\ size_of_next_batch < SIZE_THRESHOLD_BYTES
             /\ entries' = entries \o next_batch_of_logs ]_vars

\* C8 witness: a bulk append at the cursor right after a degraded iteration.
C8_Witness ==
  /\ pc = "loop"
  /\ degradedAt >= 0
  /\ index = degradedAt + 1 + LOG_BATCH_SIZE
====
